---- MODULE Spec2Model ----
(***************************************************************************)
(* DXF2GLB, Scripts/blender_import.py: the polyline-to-mesh pipeline.      *)
(*                                                                         *)
(* The script is one run of import_and_process: load the JSON document,    *)
(* compute the centre, group the polylines by layer, build one curve per   *)
(* layer, convert the curves to meshes, weld / dissolve / decimate them,   *)
(* sample the vertex count along the way and export.                       *)
(*                                                                         *)
(* Numbers.  Coordinates are doubles.  The inputs of the model are even    *)
(* integers, on which the script's arithmetic (+, -, /2 of a sum of two    *)
(* inputs, * by an integer SCALE) is exact, so a finite double is held as  *)
(* an Int.  The three non-finite doubles the script can produce are kept:  *)
(* float('inf'), float('-inf') and the nan of inf + -inf.                  *)
(*                                                                         *)
(* Points.  A polyline's `points` list is held run-length encoded: a run   *)
(* [p, n] is n consecutive copies of the point p.  len(points) is the sum  *)
(* of the n, and a loop over the points visits the runs in order, each     *)
(* n times.  This keeps the 100,000 point sample limit at its own value.   *)
(***************************************************************************)
EXTENDS Integers, Sequences, FiniteSets, TLC

VARIABLES
    config,         \* the configuration globals (lines 25-64)
    fileExists,     \* os.path.exists(JSON_PATH)
    data,           \* the JSON document: [has_polylines, polylines]
    pc,             \* position of the run
    polylines,      \* import_and_process's local `polylines`
    center,         \* <<>> until computed, then <<cx, cy, cz>>
    layers,         \* the insertion-ordered dict `layers`, as a sequence
    curve_objects,  \* the list `curve_objects`
    total_splines,  \* the counter `total_splines`
    mesh_objects,   \* the list `mesh_objects`
    samples,        \* every get_vertex_count() call of the run, in order
    summary,        \* vertex_count_before / vertex_count_after, -1 when unset
    exported,       \* <<>> or <<names of the meshes handed to export_glb>>
    trace,          \* the stages the run has executed, in order
    outcome         \* "running", "file_not_found", "no_polylines", "complete"

vars == <<config, fileExists, data, pc, polylines, center, layers,
          curve_objects, total_splines, mesh_objects, samples, summary,
          exported, trace, outcome>>

-----------------------------------------------------------------------------
(* Bounds of the model and constants of the program *)

\* at most this many polylines in a document of the geometry specification
MaxPolylines == 3
\* at most this many polylines in a document of the pipeline specification
MaxRunPolylines == 2

\* at most this many runs in a polyline, and polylines in a document, of the
\* sampling specification
MaxSampleRuns == 2
MaxSamplePolylines == 2

\* `if count > 100000` (calculate_center)
SAMPLE_LIMIT == 100000

\* pl.get('layer', 'Default') on a polyline without a layer key
NoLayer == "<absent>"

-----------------------------------------------------------------------------
(* Doubles *)

Fin(v) == [k |-> "fin", v |-> v]
INF    == [k |-> "inf", v |-> 1]
NINF   == [k |-> "inf", v |-> -1]
NAN    == [k |-> "nan", v |-> 0]

\* a < b on doubles; every comparison with nan is False
flt(a, b) ==
    IF a.k = "nan" \/ b.k = "nan" THEN FALSE
    ELSE IF a.k = "fin" /\ b.k = "fin" THEN a.v < b.v
    ELSE IF a.k = "inf" /\ b.k = "inf" THEN a.v < b.v
    ELSE IF a.k = "inf" THEN a.v < 0
    ELSE b.v > 0

\* Python's min(a, b): b when b < a, else a
fmin(a, b) == IF flt(b, a) THEN b ELSE a

\* Python's max(a, b): b when b > a, else a
fmax(a, b) == IF flt(a, b) THEN b ELSE a

fadd(a, b) ==
    IF a.k = "nan" \/ b.k = "nan" THEN NAN
    ELSE IF a.k = "fin" /\ b.k = "fin" THEN Fin(a.v + b.v)
    ELSE IF a.k = "inf" /\ b.k = "inf" THEN (IF a.v = b.v THEN a ELSE NAN)
    ELSE IF a.k = "inf" THEN a
    ELSE b

fneg(a) == IF a.k = "nan" THEN NAN ELSE [k |-> a.k, v |-> 0 - a.v]

fsub(a, b) == fadd(a, fneg(b))

\* a / 2; exact on the sums the model forms (both terms even)
fhalf(a) == IF a.k = "fin" THEN Fin(a.v \div 2) ELSE a

\* a * s for a finite s > 0
fscale(a, s) == IF a.k = "fin" THEN Fin(a.v * s) ELSE a

-----------------------------------------------------------------------------
(* Polylines *)

Run(p, n) == [p |-> p, n |-> n]

RECURSIVE NPoints(_)
\* len(points)
NPoints(points) ==
    IF points = <<>> THEN 0
    ELSE Head(points).n + NPoints(Tail(points))

\* pl.get('layer', 'Default')
LayerOf(pl) == IF pl.layer = NoLayer THEN "Default" ELSE pl.layer

-----------------------------------------------------------------------------
(* calculate_center (lines 93-118) *)

Minimum(a, b) == IF a < b THEN a ELSE b

\* the loop state before the first point: lines 95-98
ScanStart ==
    [min |-> <<INF, INF, INF>>, max |-> <<NINF, NINF, NINF>>, count |-> 0]

\* lines 101-108 on the n copies of p, of which the inner loop visits
\* `taken`: it leaves at the first copy that makes count exceed the limit
ScanRun(acc, r) ==
    LET taken == Minimum(r.n, SAMPLE_LIMIT + 1 - acc.count)
    IN  [min   |-> [a \in 1..3 |-> fmin(acc.min[a], Fin(r.p[a]))],
         max   |-> [a \in 1..3 |-> fmax(acc.max[a], Fin(r.p[a]))],
         count |-> acc.count + taken]

RECURSIVE ScanPoints(_, _)
\* the inner loop, lines 100-110, with its break
ScanPoints(acc, points) ==
    IF points = <<>> THEN acc
    ELSE LET acc2 == ScanRun(acc, Head(points))
         IN  IF acc2.count > SAMPLE_LIMIT THEN acc2
             ELSE ScanPoints(acc2, Tail(points))

RECURSIVE ScanPolylines(_, _)
\* the outer loop, lines 99-112, with its break
ScanPolylines(acc, pls) ==
    IF pls = <<>> THEN acc
    ELSE LET acc2 == ScanPoints(acc, Head(pls).points)
         IN  IF acc2.count > SAMPLE_LIMIT THEN acc2
             ELSE ScanPolylines(acc2, Tail(pls))

calculate_center(pls) ==
    LET acc == ScanPolylines(ScanStart, pls)
    IN  [a \in 1..3 |-> fhalf(fadd(acc.min[a], acc.max[a]))]

-----------------------------------------------------------------------------
(* Grouping by layer (lines 313-319) *)

\* the position of `name` among the dict's keys, 0 when it is not a key
KeyIndex(groups, name) ==
    IF \E i \in 1..Len(groups) : groups[i].name = name
    THEN CHOOSE i \in 1..Len(groups) : groups[i].name = name
    ELSE 0

\* AddToLayer with `layers[layer] = [pl]` in place of the append
AddToLayerOverwrite(groups, pl) ==
    LET layer == LayerOf(pl)
        i     == KeyIndex(groups, layer)
    IN  IF i = 0
        THEN Append(groups, [name |-> layer, polylines |-> <<pl>>])
        ELSE [groups EXCEPT ![i].polylines = <<pl>>]

\* one turn of the loop: lines 316-319
AddToLayer(groups, pl) ==
    LET layer == LayerOf(pl)
        i     == KeyIndex(groups, layer)
    IN  IF i = 0
        THEN Append(groups, [name |-> layer, polylines |-> <<pl>>])
        ELSE [groups EXCEPT ![i].polylines = Append(@, pl)]

RECURSIVE GroupInto(_, _)
GroupInto(groups, pls) ==
    IF pls = <<>> THEN groups
    ELSE GroupInto(AddToLayer(groups, Head(pls)), Tail(pls))

group_by_layer(pls) == GroupInto(<<>>, pls)

\* lines 309-310: polylines[:MAX_POLYLINES]; None and 0 are falsy
limit_polylines(pls, max) ==
    IF max = 0 THEN pls
    ELSE SubSeq(pls, 1, Minimum(max, Len(pls)))

-----------------------------------------------------------------------------
(* create_merged_curve_from_polylines (lines 121-170) *)

\* lines 143-146 and 152-154 on one point
CenterPoint(p, c, scale) ==
    [a \in 1..3 |-> fscale(fsub(Fin(p[a]), c[a]), scale)]

\* lines 143-157: the spline of one polyline
MakeSpline(pl, c, scale) ==
    [points |-> [i \in 1..Len(pl.points) |->
                    Run(CenterPoint(pl.points[i].p, c, scale), pl.points[i].n)],
     use_cyclic_u |-> pl.closed]

\* SkipsPolyline with `< 1` in place of `< 2`
SkipsPolylineBelowOne(pl) == NPoints(pl.points) < 1

\* line 139: `if len(points) < 2: continue`
SkipsPolyline(pl) == NPoints(pl.points) < 2

RECURSIVE BuildSplines(_, _, _, _)
\* the loop of lines 135-159; acc is [splines, spline_count]
BuildSplines(acc, pls, c, scale) ==
    IF pls = <<>> THEN acc
    ELSE LET pl == Head(pls)
         IN  IF SkipsPolyline(pl)
             THEN BuildSplines(acc, Tail(pls), c, scale)
             ELSE BuildSplines(
                    [splines |-> Append(acc.splines, MakeSpline(pl, c, scale)),
                     spline_count |-> acc.spline_count + 1],
                    Tail(pls), c, scale)

create_merged_curve_from_polylines(name, polylines_data, c, scale) ==
    LET r == BuildSplines([splines |-> <<>>, spline_count |-> 0],
                          polylines_data, c, scale)
    IN  [curve_obj |-> [name |-> name, splines |-> r.splines],
         spline_count |-> r.spline_count]

-----------------------------------------------------------------------------
(* The host's operators.  Blender is not part of the repository: a mesh is  *)
(* held as its vertex and face counts, and what an operator does to them   *)
(* is a choice among the outcomes in Drops.                                *)

\* how many vertices (and faces) one operator call may remove
Drops == {0, 1}

\* never below zero
Less(n, d) == IF n > d THEN n - d ELSE 0

RECURSIVE SplinePoints(_)
SplinePoints(splines) ==
    IF splines = <<>> THEN 0
    ELSE NPoints(Head(splines).points) + SplinePoints(Tail(splines))

RECURSIVE SplineSegments(_)
SplineSegments(splines) ==
    IF splines = <<>> THEN 0
    ELSE NPoints(Head(splines).points) - 1
         + (IF Head(splines).use_cyclic_u THEN 1 ELSE 0)
         + SplineSegments(Tail(splines))

\* convert_curve_to_mesh (lines 173-183): the curve object becomes a mesh
convert_curve_to_mesh(curve_obj) ==
    [name    |-> curve_obj.name,
     verts   |-> SplinePoints(curve_obj.splines),
     faces   |-> SplineSegments(curve_obj.splines),
     applied |-> <<>>]

\* what one host operator leaves of a mesh, recorded in the mesh's history
Operated(mesh_obj, op, d) ==
    [mesh_obj EXCEPT
        !.verts   = Less(@, d),
        !.faces   = Less(@, d),
        !.applied = Append(@, [op |-> op, verts |-> Less(mesh_obj.verts, d)])]

\* merge_vertices (lines 186-202): bpy.ops.mesh.remove_doubles
merge_vertices(mesh_obj, distance, d) == Operated(mesh_obj, "merge", d)

\* apply_limit_dissolve (lines 205-221): bpy.ops.mesh.dissolve_limited
apply_limit_dissolve(mesh_obj, angle_limit, d) ==
    Operated(mesh_obj, "dissolve", d)

\* apply_decimate (lines 224-244); ratio is in percent
apply_decimate(mesh_obj, ratio, d) ==
    IF ratio >= 100 THEN mesh_obj
    ELSE Operated(mesh_obj, "decimate", d)

RECURSIVE SumVerts(_)
SumVerts(meshes) ==
    IF meshes = <<>> THEN 0
    ELSE Head(meshes).verts + SumVerts(Tail(meshes))

\* get_vertex_count with the return inside the loop
get_vertex_count_first(meshes) ==
    IF meshes = <<>> THEN 0 ELSE Head(meshes).verts

\* get_vertex_count (lines 247-253): the scene's meshes are the converted
\* curves (batch mode clears the scene first, line 430)
get_vertex_count(meshes) == SumVerts(meshes)

Sample(at, meshes) == [at |-> at, count |-> get_vertex_count(meshes)]

-----------------------------------------------------------------------------
(* The run: __main__ (lines 424-435) and import_and_process (281-405) *)

\* StageAfter with the dissolve block placed before the merge block
StageAfterSwapped(stage) ==
    CASE stage = "convert"  -> "dissolve"
      [] stage = "dissolve" -> "merge"
      [] stage = "merge"    -> "decimate"
      [] stage = "decimate" -> "summary"

\* the order of the statements of lines 349-387
StageAfter(stage) ==
    CASE stage = "convert"  -> "merge"
      [] stage = "merge"    -> "dissolve"
      [] stage = "dissolve" -> "decimate"
      [] stage = "decimate" -> "summary"

\* MergeEnabled without the test of the distance
MergeAlways(c) == TRUE

\* line 362: `if MERGE_DISTANCE > 0`
MergeEnabled(c) == c.MERGE_DISTANCE > 0

\* line 369: `if LIMIT_DISSOLVE_ANGLE > 0`
DissolveEnabled(c) == c.LIMIT_DISSOLVE_ANGLE > 0

\* line 376: `if DECIMATE_RATIO < 1.0`
DecimateEnabled(c) == c.DECIMATE_RATIO < 100

\* lines 432-435
Main ==
    /\ pc = "main"
    /\ IF fileExists
       THEN pc' = "load" /\ outcome' = outcome
       ELSE pc' = "done" /\ outcome' = "file_not_found"
    /\ UNCHANGED <<config, fileExists, data, polylines, center, layers,
                   curve_objects, total_splines, mesh_objects, samples,
                   summary, exported, trace>>

\* Load without the `if not polylines: return` of lines 298-300
LoadWithoutCheck ==
    /\ pc = "load"
    /\ polylines' = (IF data.has_polylines THEN data.polylines ELSE <<>>)
    /\ pc' = "center"
    /\ UNCHANGED <<config, fileExists, data, center, layers, curve_objects,
                   total_splines, mesh_objects, samples, summary, exported,
                   trace, outcome>>

\* lines 289-300: json.load, data.get('polylines', []), `if not polylines`
Load ==
    /\ pc = "load"
    /\ polylines' = (IF data.has_polylines THEN data.polylines ELSE <<>>)
    /\ IF polylines' = <<>>
       THEN pc' = "done" /\ outcome' = "no_polylines"
       ELSE pc' = "center" /\ outcome' = outcome
    /\ UNCHANGED <<config, fileExists, data, center, layers, curve_objects,
                   total_splines, mesh_objects, samples, summary, exported,
                   trace>>

\* lines 302-306
CalculateCenter ==
    /\ pc = "center"
    /\ center' = calculate_center(polylines)
    /\ trace' = Append(trace, "center")
    /\ pc' = "group"
    /\ UNCHANGED <<config, fileExists, data, polylines, layers,
                   curve_objects, total_splines, mesh_objects, samples,
                   summary, exported, outcome>>

\* lines 308-319
GroupByLayer ==
    /\ pc = "group"
    /\ polylines' = limit_polylines(polylines, config.MAX_POLYLINES)
    /\ layers' = group_by_layer(polylines')
    /\ trace' = Append(trace, "group")
    /\ pc' = "curves"
    /\ UNCHANGED <<config, fileExists, data, center, curve_objects,
                   total_splines, mesh_objects, samples, summary, exported,
                   outcome>>

\* LayerCurve with the centre taken from the layer's own polylines
LayerCurveOwnCenter(i) ==
    create_merged_curve_from_polylines(layers[i].name, layers[i].polylines,
                                       calculate_center(layers[i].polylines),
                                       config.SCALE)

\* the curve of layer i: lines 340-342
LayerCurve(i) ==
    create_merged_curve_from_polylines(layers[i].name, layers[i].polylines,
                                       center, config.SCALE)

RECURSIVE SumCounts(_, _)
SumCounts(f, n) == IF n = 0 THEN 0 ELSE f[n] + SumCounts(f, n - 1)

\* lines 324-347: the loop over layers.items()
CreateCurves ==
    /\ pc = "curves"
    /\ IF config.MERGE_PER_LAYER
       THEN /\ curve_objects' =
                 [i \in 1..Len(layers) |-> LayerCurve(i).curve_obj]
            /\ total_splines' =
                 SumCounts([i \in 1..Len(layers) |-> LayerCurve(i).spline_count],
                           Len(layers))
       ELSE /\ curve_objects' = <<>>
            /\ total_splines' = 0
    /\ trace' = Append(trace, "curves")
    /\ pc' = (IF config.CONVERT_TO_MESH THEN "convert" ELSE "export")
    /\ UNCHANGED <<config, fileExists, data, polylines, center, layers,
                   mesh_objects, samples, summary, exported, outcome>>

\* lines 351-359
ConvertToMesh ==
    /\ pc = "convert"
    /\ mesh_objects' = [i \in 1..Len(curve_objects) |->
                           convert_curve_to_mesh(curve_objects[i])]
    /\ samples' = Append(samples, Sample("before", mesh_objects'))
    /\ summary' = [before |-> get_vertex_count(mesh_objects'), after |-> -1]
    /\ trace' = Append(trace, "convert")
    /\ pc' = StageAfter("convert")
    /\ UNCHANGED <<config, fileExists, data, polylines, center, layers,
                   curve_objects, total_splines, exported, outcome>>

\* lines 361-366
MergeVertices ==
    /\ pc = "merge"
    /\ IF MergeEnabled(config)
       THEN \E ds \in [1..Len(mesh_objects) -> Drops] :
              /\ mesh_objects' = [i \in 1..Len(mesh_objects) |->
                    merge_vertices(mesh_objects[i], config.MERGE_DISTANCE, ds[i])]
              /\ samples' = Append(samples, Sample("merge", mesh_objects'))
              /\ trace' = Append(trace, "merge")
       ELSE UNCHANGED <<mesh_objects, samples, trace>>
    /\ pc' = StageAfter("merge")
    /\ UNCHANGED <<config, fileExists, data, polylines, center, layers,
                   curve_objects, total_splines, summary, exported, outcome>>

\* lines 368-373
LimitDissolve ==
    /\ pc = "dissolve"
    /\ IF DissolveEnabled(config)
       THEN \E ds \in [1..Len(mesh_objects) -> Drops] :
              /\ mesh_objects' = [i \in 1..Len(mesh_objects) |->
                    apply_limit_dissolve(mesh_objects[i],
                                         config.LIMIT_DISSOLVE_ANGLE, ds[i])]
              /\ samples' = Append(samples, Sample("dissolve", mesh_objects'))
              /\ trace' = Append(trace, "dissolve")
       ELSE UNCHANGED <<mesh_objects, samples, trace>>
    /\ pc' = StageAfter("dissolve")
    /\ UNCHANGED <<config, fileExists, data, polylines, center, layers,
                   curve_objects, total_splines, summary, exported, outcome>>

\* lines 375-380
Decimate ==
    /\ pc = "decimate"
    /\ IF DecimateEnabled(config)
       THEN \E ds \in [1..Len(mesh_objects) -> Drops] :
              /\ mesh_objects' = [i \in 1..Len(mesh_objects) |->
                    apply_decimate(mesh_objects[i], config.DECIMATE_RATIO, ds[i])]
              /\ samples' = Append(samples, Sample("decimate", mesh_objects'))
              /\ trace' = Append(trace, "decimate")
       ELSE UNCHANGED <<mesh_objects, samples, trace>>
    /\ pc' = StageAfter("decimate")
    /\ UNCHANGED <<config, fileExists, data, polylines, center, layers,
                   curve_objects, total_splines, summary, exported, outcome>>

\* lines 382-387
Summary ==
    /\ pc = "summary"
    /\ samples' = Append(samples, Sample("after", mesh_objects))
    /\ summary' = [summary EXCEPT !.after = get_vertex_count(mesh_objects)]
    /\ pc' = "export"
    /\ UNCHANGED <<config, fileExists, data, polylines, center, layers,
                   curve_objects, total_splines, mesh_objects, exported,
                   trace, outcome>>

\* lines 389-405; export_glb (256-278) selects every mesh of the scene
Export ==
    /\ pc = "export"
    /\ IF config.EXPORT_GLB
       THEN /\ exported' = <<[i \in 1..Len(mesh_objects) |-> mesh_objects[i].name]>>
            /\ trace' = Append(trace, "export")
       ELSE UNCHANGED <<exported, trace>>
    /\ pc' = "done"
    /\ outcome' = "complete"
    /\ UNCHANGED <<config, fileExists, data, polylines, center, layers,
                   curve_objects, total_splines, mesh_objects, samples,
                   summary>>

-----------------------------------------------------------------------------
(* Inputs *)

P1 == <<0, 0, 0>>
P2 == <<4, -2, 6>>
P3 == <<-6, 8, 2>>

SeqsUpTo(S, n) == UNION {[1..k -> S] : k \in 0..n}

Shape(points, closed) == [points |-> points, closed |-> closed]

Polylines(tags, shapes) ==
    {[layer |-> t, closed |-> s.closed, points |-> s.points] :
        t \in tags, s \in shapes}

\* the document of a run: no polylines key, or a polylines array
Documents(pls) ==
    {[has_polylines |-> FALSE, polylines |-> <<>>]}
    \cup {[has_polylines |-> TRUE, polylines |-> s] : s \in pls}

\* the values of lines 25-64, SCALE as an integer, the distances, angles
\* and ratios in thousandths, ten-thousandths and percent, None as 0
Defaults ==
    [SCALE |-> 1, MAX_POLYLINES |-> 0, MERGE_PER_LAYER |-> TRUE,
     CONVERT_TO_MESH |-> TRUE, MERGE_DISTANCE |-> 1,
     LIMIT_DISSOLVE_ANGLE |-> 872, DECIMATE_RATIO |-> 50,
     EXPORT_GLB |-> TRUE]

InitRun ==
    /\ pc = "main"
    /\ polylines = <<>>
    /\ center = <<>>
    /\ layers = <<>>
    /\ curve_objects = <<>>
    /\ total_splines = 0
    /\ mesh_objects = <<>>
    /\ samples = <<>>
    /\ summary = [before |-> -1, after |-> -1]
    /\ exported = <<>>
    /\ trace = <<>>
    /\ outcome = "running"

\* the pipeline: every setting of the toggles, small documents
PipelineConfigs ==
    {[Defaults EXCEPT !.SCALE = s, !.MERGE_PER_LAYER = m,
                      !.CONVERT_TO_MESH = c, !.MERGE_DISTANCE = w,
                      !.LIMIT_DISSOLVE_ANGLE = a, !.DECIMATE_RATIO = r,
                      !.EXPORT_GLB = e] :
        s \in {1, 2}, m \in BOOLEAN, c \in BOOLEAN, w \in {0, 1},
        a \in {0, 872}, r \in {50, 100}, e \in BOOLEAN}

PipelinePolylines ==
    Polylines({"A", NoLayer},
              {Shape(<<>>, FALSE),
               Shape(<<Run(P1, 1), Run(P2, 1)>>, FALSE),
               Shape(<<Run(P2, 1), Run(P3, 1)>>, TRUE)})

Init ==
    /\ config \in PipelineConfigs
    /\ fileExists \in BOOLEAN
    /\ data \in Documents(SeqsUpTo(PipelinePolylines, MaxRunPolylines))
    /\ fileExists = FALSE => data.has_polylines = FALSE
    /\ InitRun

Next ==
    \/ Main
    \/ Load
    \/ CalculateCenter
    \/ GroupByLayer
    \/ CreateCurves
    \/ ConvertToMesh
    \/ MergeVertices
    \/ LimitDissolve
    \/ Decimate
    \/ Summary
    \/ Export

Spec == Init /\ [][Next]_vars

\* the geometry stages alone (centre, grouping, curves) on larger documents
GeometryConfigs == {[Defaults EXCEPT !.MAX_POLYLINES = n] : n \in {0, 2}}

GeometryPolylines ==
    Polylines({"A", "B", NoLayer},
              {Shape(<<>>, FALSE),
               Shape(<<Run(P1, 1)>>, TRUE),
               Shape(<<Run(P3, 1), Run(P2, 1)>>, FALSE),
               Shape(<<Run(P3, 1), Run(P2, 2)>>, TRUE)})

InitGeometry ==
    /\ config \in GeometryConfigs
    /\ fileExists = TRUE
    /\ data \in Documents(SeqsUpTo(GeometryPolylines, MaxPolylines))
    /\ InitRun

NextGeometry ==
    \/ Main
    \/ Load
    \/ CalculateCenter
    \/ GroupByLayer
    \/ CreateCurves

SpecGeometry == InitGeometry /\ [][NextGeometry]_vars

\* calculate_center alone, on documents around the sample limit
SamplingRuns ==
    {Run(p, n) : p \in {P1, P2, P3},
                 n \in {1, SAMPLE_LIMIT - 1, SAMPLE_LIMIT}}

SamplingPolylines ==
    [layer : {NoLayer}, closed : {FALSE},
     points : SeqsUpTo(SamplingRuns, MaxSampleRuns)]

InitSampling ==
    /\ config = Defaults
    /\ fileExists = TRUE
    /\ data \in Documents(SeqsUpTo(SamplingPolylines, MaxSamplePolylines))
    /\ InitRun

NextSampling ==
    \/ Main
    \/ Load
    \/ CalculateCenter

SpecSampling == InitSampling /\ [][NextSampling]_vars

-----------------------------------------------------------------------------
(* Properties *)

InTrace(stage) == \E i \in 1..Len(trace) : trace[i] = stage

RECURSIVE Total(_, _)
\* f[1] + ... + f[n]
Total(f, n) == IF n = 0 THEN 0 ELSE f[n] + Total(f, n - 1)

PointCount(pl) == Total([i \in 1..Len(pl.points) |-> pl.points[i].n],
                        Len(pl.points))

DocumentPoints ==
    Total([j \in 1..Len(data.polylines) |-> PointCount(data.polylines[j])],
          Len(data.polylines))

\* a polyline that carries a strand: at least 2 points
KeepsPoints(pl) == PointCount(pl) >= 2

\* the tag a polyline is grouped under
Tag(pl) == IF pl.layer = NoLayer THEN "Default" ELSE pl.layer

----
\* C1: a document whose polylines array is non-empty but holds no point at
\* all ends in a hard error: the centre is never computed from the
\* untouched infinite bounds and no stage (grouping, curves, ...) runs.
ZeroPointDocument ==
    /\ fileExists
    /\ data.has_polylines
    /\ data.polylines # <<>>
    /\ DocumentPoints = 0

C1_ZeroPointsIsHardError ==
    ZeroPointDocument => (center = <<>> /\ trace = <<>>)

----
\* C2: when the file is missing, or the polylines array is empty or absent,
\* no stage is ever reached: no centre, no groups, no curves, no meshes, no
\* vertex sample and no export.
DocumentFailure ==
    \/ ~fileExists
    \/ ~data.has_polylines
    \/ data.polylines = <<>>

C2_DocumentFailureRunsNoStage ==
    DocumentFailure =>
        /\ trace = <<>>
        /\ center = <<>>
        /\ layers = <<>>
        /\ curve_objects = <<>>
        /\ mesh_objects = <<>>
        /\ samples = <<>>
        /\ exported = <<>>
        /\ pc \in {"main", "load", "done"}
        /\ pc = "done" => outcome \in {"file_not_found", "no_polylines"}

C2_Witness ==
    /\ fileExists
    /\ data.has_polylines
    /\ data.polylines = <<>>
    /\ pc = "done"
    /\ outcome = "no_polylines"

----
\* C3: with at least one point in the document, the centre is per axis the
\* midpoint (min + max) / 2 of the bounding box of exactly the first
\* min(total, 100000) points in iteration order.
RECURSIVE AllRuns(_)
\* the runs of every polyline, in iteration order
AllRuns(pls) ==
    IF pls = <<>> THEN <<>> ELSE Head(pls).points \o AllRuns(Tail(pls))

\* the points among the first n of the document
FirstPoints(n) ==
    LET runs == AllRuns(data.polylines)
        before(i) == Total([j \in 1..(i - 1) |-> runs[j].n], i - 1)
    IN  {runs[i].p : i \in {j \in 1..Len(runs) : before(j) < n}}

Lowest(S, a)  == CHOOSE x \in {p[a] : p \in S} : \A p \in S : x <= p[a]
Highest(S, a) == CHOOSE x \in {p[a] : p \in S} : \A p \in S : x >= p[a]

BoxMidpoint(S) == [a \in 1..3 |-> Fin((Lowest(S, a) + Highest(S, a)) \div 2)]

C3_CenterOfFirst100000 ==
    (center # <<>> /\ DocumentPoints >= 1) =>
        center = BoxMidpoint(FirstPoints(
                    IF DocumentPoints < 100000 THEN DocumentPoints ELSE 100000))

----
\* C4: on every mesh the stages run in the order weld, dissolve, decimate,
\* each at most once, an enabled earlier stage before any later one, and
\* only after the conversion of the curves to meshes.
Rank(op) ==
    CASE op = "convert"  -> 0
      [] op = "merge"    -> 1
      [] op = "dissolve" -> 2
      [] op = "decimate" -> 3
      [] OTHER           -> -1

Increasing(ops) ==
    \A i, j \in 1..Len(ops) : i < j => Rank(ops[i]) < Rank(ops[j])

IsMeshStage(stage) == Rank(stage) >= 0

Ops(mesh) == [j \in 1..Len(mesh.applied) |-> mesh.applied[j].op]

Has(mesh, op) == \E j \in 1..Len(mesh.applied) : mesh.applied[j].op = op

C4_StagesInOrder ==
    LET stages == SelectSeq(trace, IsMeshStage)
    IN  /\ Increasing(stages)
        /\ stages # <<>> => stages[1] = "convert"
        /\ mesh_objects # <<>> => InTrace("convert")
        /\ \A i \in 1..Len(mesh_objects) :
             LET m == mesh_objects[i]
             IN  /\ Increasing(Ops(m))
                 /\ \A j \in 1..Len(m.applied) :
                      Rank(m.applied[j].op) >= 1 /\ InTrace(m.applied[j].op)
                 /\ (config.MERGE_DISTANCE > 0
                       /\ (Has(m, "dissolve") \/ Has(m, "decimate")))
                    => Has(m, "merge")
                 /\ (config.LIMIT_DISSOLVE_ANGLE > 0 /\ Has(m, "decimate"))
                    => Has(m, "dissolve")

C4_Witness ==
    /\ pc = "done"
    /\ Len(mesh_objects) = 2
    /\ \A i \in 1..2 :
         Ops(mesh_objects[i]) = <<"merge", "dissolve", "decimate">>

----
\* C5: a stage whose parameter is at its disabling boundary (weld distance
\* 0, dissolve angle 0, decimate ratio 1.0) leaves every mesh as it was,
\* vertex and face counts included; a stage whose parameter enables it
\* runs on every mesh.
RanOn(op) ==
    /\ Len(mesh_objects') = Len(mesh_objects)
    /\ \A i \in 1..Len(mesh_objects) :
         /\ Len(mesh_objects'[i].applied) = Len(mesh_objects[i].applied) + 1
         /\ mesh_objects'[i].applied[Len(mesh_objects'[i].applied)].op = op

C5_Step ==
    /\ (pc = "merge" /\ config.MERGE_DISTANCE = 0)
         => mesh_objects' = mesh_objects
    /\ (pc = "dissolve" /\ config.LIMIT_DISSOLVE_ANGLE = 0)
         => mesh_objects' = mesh_objects
    /\ (pc = "decimate" /\ config.DECIMATE_RATIO = 100)
         => mesh_objects' = mesh_objects
    /\ (pc = "merge" /\ config.MERGE_DISTANCE > 0) => RanOn("merge")
    /\ (pc = "dissolve" /\ config.LIMIT_DISSOLVE_ANGLE > 0) => RanOn("dissolve")
    /\ (pc = "decimate" /\ config.DECIMATE_RATIO < 100) => RanOn("decimate")

C5_DisabledStageChangesNothing == [][C5_Step]_vars

C5_Witness ==
    /\ pc = "done"
    /\ config.MERGE_DISTANCE = 0
    /\ config.LIMIT_DISSOLVE_ANGLE > 0
    /\ config.DECIMATE_RATIO = 100
    /\ \E i \in 1..Len(mesh_objects) :
         /\ Ops(mesh_objects[i]) = <<"dissolve">>
         /\ mesh_objects[i].verts > 0

----
\* C6: the centre is computed once, from the whole document, before any
\* layer is processed, and keeps that value; every point of every strand
\* of every curve is (input - centre) * scale per axis with that centre.
Strands(group) == SelectSeq(group, KeepsPoints)

C6_OneFrozenCenter ==
    /\ center # <<>> => center = calculate_center(data.polylines)
    /\ Len(SelectSeq(trace, LAMBDA t : t = "center")) <= 1
    /\ (InTrace("group") \/ InTrace("curves")) => trace[1] = "center"
    /\ \A i \in 1..Len(curve_objects) :
         LET src == Strands(layers[i].polylines)
             got == curve_objects[i].splines
         IN  \A s \in 1..Len(got) :
               s <= Len(src) =>
                 \A r \in 1..Len(got[s].points) :
                   r <= Len(src[s].points) =>
                     \A a \in 1..3 :
                       /\ center[a].k = "fin"
                       /\ got[s].points[r].p[a] =
                            Fin((src[s].points[r].p[a] - center[a].v)
                                * config.SCALE)

C6_Witness ==
    /\ pc = "done"
    /\ config.SCALE = 2
    /\ Len(curve_objects) = 2
    /\ \A i \in 1..2 :
         /\ curve_objects[i].splines # <<>>
         /\ calculate_center(layers[i].polylines) # center

----
\* C7: the curve of a layer has one strand per polyline of the group with
\* at least 2 points, in the group's order, each with the point count and
\* the closed flag of its polyline; polylines with 0 or 1 points give no
\* strand, and the strand count returned is the number of strands.
C7_StrandPerPolyline ==
    (InTrace("curves") /\ config.MERGE_PER_LAYER) =>
        /\ Len(curve_objects) = Len(layers)
        /\ \A i \in 1..Len(layers) :
             LET src == Strands(layers[i].polylines)
                 got == curve_objects[i].splines
             IN  /\ Len(got) = Len(src)
                 /\ \A s \in 1..Len(src) :
                      /\ PointCount(got[s]) = PointCount(src[s])
                      /\ got[s].use_cyclic_u = src[s].closed
        /\ total_splines = Len(Strands(polylines))

C7_Witness ==
    /\ InTrace("curves")
    /\ \E i \in 1..Len(layers) :
         /\ Len(layers[i].polylines) = 3
         /\ PointCount(layers[i].polylines[1]) = 1
         /\ Len(curve_objects[i].splines) = 2
         /\ curve_objects[i].splines[1].use_cyclic_u
         /\ ~curve_objects[i].splines[2].use_cyclic_u
         /\ PointCount(curve_objects[i].splines[1]) = 3

----
\* C8: grouping partitions the processed polylines by tag (a missing tag is
\* "Default"): each group is exactly the polylines of its tag in input
\* order, no tag has two groups, every polyline's tag has a group, and the
\* groups are in the order of the first occurrence of their tags.
FirstWith(tag) ==
    CHOOSE j \in 1..Len(polylines) :
        /\ Tag(polylines[j]) = tag
        /\ \A k \in 1..(j - 1) : Tag(polylines[k]) # tag

C8_GroupsPartitionByTag ==
    InTrace("group") =>
        /\ polylines = SubSeq(data.polylines, 1, Len(polylines))
        /\ \A g \in 1..Len(layers) :
             LET OfGroup(pl) == Tag(pl) = layers[g].name
             IN  /\ layers[g].polylines = SelectSeq(polylines, OfGroup)
                 /\ layers[g].polylines # <<>>
        /\ \A g, h \in 1..Len(layers) :
             g < h => /\ layers[g].name # layers[h].name
                      /\ FirstWith(layers[g].name) < FirstWith(layers[h].name)
        /\ \A j \in 1..Len(polylines) :
             \E g \in 1..Len(layers) : layers[g].name = Tag(polylines[j])

C8_Witness ==
    /\ InTrace("group")
    /\ [j \in 1..Len(polylines) |-> polylines[j].layer] = <<"A", "B", "A">>
    /\ [g \in 1..Len(layers) |-> layers[g].name] = <<"A", "B">>
    /\ Len(layers[1].polylines) = 2
    /\ Len(layers[2].polylines) = 1

----
\* C9: with the merge-per-layer toggle off, every polyline with at least 2
\* points yields its own curve of exactly one strand.
C9_UnmergedCurvePerPolyline ==
    (InTrace("curves") /\ ~config.MERGE_PER_LAYER) =>
        /\ Len(curve_objects) = Len(Strands(polylines))
        /\ \A i \in 1..Len(curve_objects) :
             Len(curve_objects[i].splines) = 1

----
\* C10 as stated: in every run that reaches the simplifier, whatever the
\* stage parameters, the vertex count is sampled before the pipeline, after
\* welding, after dissolve and after decimation, in this order.
Labels == [k \in 1..Len(samples) |-> samples[k].at]

Simplified == InTrace("convert") /\ pc \in {"export", "done"}

C10_FourSamplesAlways ==
    Simplified =>
        \E b, w, d, f \in 1..Len(samples) :
            /\ b < w /\ w < d /\ d < f
            /\ Labels[b] = "before"
            /\ Labels[w] = "merge"
            /\ Labels[d] = "dissolve"
            /\ Labels[f] \in {"decimate", "after"}

\* C10 as amended: the count is sampled before the pipeline and after its
\* last stage in every such run, and between the two after welding, after
\* dissolve and after decimation, in this order, for exactly the stages
\* that are enabled; each sample is the total vertex count of the meshes
\* at that point, and the first and last are the counts of the summary.
ExpectedLabels ==
    <<"before">>
    \o (IF config.MERGE_DISTANCE > 0 THEN <<"merge">> ELSE <<>>)
    \o (IF config.LIMIT_DISSOLVE_ANGLE > 0 THEN <<"dissolve">> ELSE <<>>)
    \o (IF config.DECIMATE_RATIO < 100 THEN <<"decimate">> ELSE <<>>)
    \o <<"after">>

VertsAfter(mesh, op) ==
    mesh.applied[CHOOSE j \in 1..Len(mesh.applied) : mesh.applied[j].op = op].verts

MeshTotal(f(_)) ==
    Total([i \in 1..Len(mesh_objects) |-> f(mesh_objects[i])], Len(mesh_objects))

C10_SamplesOfEnabledStages ==
    Simplified =>
        /\ Labels = ExpectedLabels
        /\ samples[1].count =
             Total([i \in 1..Len(curve_objects) |->
                      convert_curve_to_mesh(curve_objects[i]).verts],
                   Len(curve_objects))
        /\ \A k \in 2..(Len(samples) - 1) :
             LET After(m) == VertsAfter(m, samples[k].at)
             IN  samples[k].count = MeshTotal(After)
        /\ LET Now(m) == m.verts
           IN  samples[Len(samples)].count = MeshTotal(Now)
        /\ summary.before = samples[1].count
        /\ summary.after = samples[Len(samples)].count

C10_Witness ==
    /\ pc = "done"
    /\ config.MERGE_DISTANCE = 0
    /\ Labels = <<"before", "dissolve", "decimate", "after">>
    /\ Len(mesh_objects) = 2
    /\ samples[1].count > samples[2].count
    /\ samples[2].count > samples[3].count
    /\ samples[4].count = samples[3].count

====
